---- MODULE Spec2Model ----
(***************************************************************************)
(* BillyCompiler.py: the App window (generate_video / on_finished) and the *)
(* VideoWorker thread it starts (run, _cache_video_info, _plan_scenes,     *)
(* _create_scene_clip), together with the one directory they share,        *)
(* <output folder>/temp_clips.  The destination folder is held fixed, so   *)
(* every run works on the same temp_clips path.                            *)
(***************************************************************************)
EXTENDS Integers, Sequences, FiniteSets, TLC

\* ------------------------------------------------------------------ bounds
MaxRuns == 2        \* how many times Generate is clicked
MaxTotal == 3       \* largest "Total Video Length" tried (spin box goes to 7200)
MaxScene == 2       \* largest "Clip Length" tried (spin box goes to 60)
MaxPool == 1        \* largest number of source videos found
BelowZero == 1      \* how far below 1 a scene_duration passed to VideoWorker goes
MaxScenePool == 4   \* largest pool a scene taken on its own is built from
DrawPeriod == 4     \* period of the random.choice sequences tried
MaxPlanLength == 30 \* longest plan whose progress signal is followed (7200 at most)

\* ------------------------------------------------------ program constants
TargetW == 1280
TargetH == 720
SpinMin == 1
ConcatPercent == 95
DonePercent == 100

Runs == 1..MaxRuns
Layouts == {"single", "2x2", "3x3"}
available_layouts == {"2x2", "3x3"}
\* layout_mix slider positions tried (slider range 0..100)
MixValues == {0, 50, 100}
\* outcomes of random.randint(1, 100) tried: both ends and both sides of 50
RandDraws == {1, 50, 51, 100}
\* what ffprobe can do for one file
ProbeOutcomes == {"audio", "silent", "nonzero", "badjson", "nonobject", "nolaunch"}
\* exit codes of the external transcoder
ExitCodes == {0, 1}

VARIABLES
    ffmpeg_found,       \* App.ffmpeg_path and App.ffprobe_path are both set
    video_files,        \* App.video_files, the source pool (a set of file ids)
    generate_enabled,   \* App.generate_button.isEnabled()
    nruns,              \* how many VideoWorkers were started
    worker,             \* run id -> the VideoWorker's state and its history
    dirExists,          \* temp_clips exists
    clips,              \* clip index -> frame size of clip_<index>.ts in temp_clips
    manifest,           \* content of concat_list.txt (a sequence of clip indices), or absent
    userFile,           \* a file that was in temp_clips before any run started
    foreignTouch,       \* a run touched temp_clips while a later run was using it
    scene_clip,         \* one _create_scene_clip call taken on its own: arguments and command
    progress_bar        \* the progress signal of one run taken on its own

vars == <<ffmpeg_found, video_files, generate_enabled, nruns, worker,
          dirExists, clips, manifest, userFile, foreignTouch, scene_clip, progress_bar>>

\* concat_list.txt does not exist (clip indices are never negative)
Absent == <<-1>>

\* ------------------------------------------------------------ pure helpers

\* a _plan_scenes that rounds the number of scenes up
NumScenesRoundUp(s) ==
    IF s.scene_duration <= 0 THEN 0
    ELSE (s.total_duration + s.scene_duration - 1) \div s.scene_duration

\* _plan_scenes: the number of scenes
NumScenes(s) ==
    IF s.scene_duration <= 0 THEN 0 ELSE s.total_duration \div s.scene_duration

\* a _plan_scenes that compares the draw with < instead of <=
SceneTypeStrict(layout_mix, r, c) ==
    IF r < layout_mix THEN c ELSE "single"

\* _plan_scenes: one scene from one randint draw r and one random.choice c
SceneType(layout_mix, r, c) ==
    IF r <= layout_mix THEN c ELSE "single"

\* _plan_scenes with the random source's outcomes rs (randint) and cs (choice)
plan_scenes(s, rs, cs) ==
    [k \in 1..NumScenes(s) |-> SceneType(s.layout_mix, rs[k], cs[k])]

\* _create_scene_clip: videos a scene needs
ReqVids(type) ==
    IF type = "2x2" THEN 4 ELSE IF type = "3x3" THEN 9 ELSE 1

\* _create_scene_clip: grid dimension of a grid scene
GridDim(type) == IF type = "2x2" THEN 2 ELSE 3

\* _create_scene_clip: size of one tile
TileSize(type) == <<TargetW \div GridDim(type), TargetH \div GridDim(type)>>

\* hstack of n frames of size sz: widths add up
HStack(n, sz) == <<n * sz[1], sz[2]>>

\* vstack of n frames of size sz: heights add up
VStack(n, sz) == <<sz[1], n * sz[2]>>

\* _create_scene_clip: frame size of the [vout] label
VoutSize(type) ==
    IF type = "single"
    THEN <<TargetW, TargetH>>
    ELSE VStack(GridDim(type), HStack(GridDim(type), TileSize(type)))

\* get_media_info: the errors its except clause does not name escape it
\* (the JSON is not an object: AttributeError; ffprobe cannot be launched: OSError)
ProbeRaises(outcome) == outcome \in {"nonobject", "nolaunch"}

\* get_media_info: ffprobe did not deliver the JSON object of a normal exit
ProbeFailed(outcome) == outcome \notin {"audio", "silent"}

\* get_media_info: has_audio, for an outcome that does not escape
has_audio(outcome) == outcome = "audio"

\* int((i / total_scenes) * 100): Python divides and multiplies in floating point, and
\* the result is the exact floor for every total_scenes below 50 (at 50 it is not:
\* int((29 / 50) * 100) is 57)
ScenePercent(i, total_scenes) == (i * 100) \div total_scenes

\* ------------------------------------------------------------------- Init

\* no _create_scene_clip call is followed on its own
NoSceneClip == [stage |-> "none"]

\* no progress signal is followed on its own
NoProgressBar == [stage |-> "none"]

NoSettings == [layout_mix |-> 0, total_duration |-> SpinMin, scene_duration |-> SpinMin]

NewWorker == [
    pc |-> "unstarted",
    settings |-> NoSettings,
    video_files |-> {},
    video_info_cache |-> <<>>,
    scenes |-> <<>>,
    i |-> 0,
    clip_paths |-> <<>>,
    planned |-> FALSE,          \* _plan_scenes has returned
    probe_failed |-> FALSE,     \* ffprobe ended in an error for one of the videos
    finished |-> <<>>,          \* finished.emit calls: [message, success, wsExisted]
    delivered |-> 0,            \* how many of them on_finished has handled
    progress |-> <<>>,          \* progress.emit percents
    renderCodes |-> <<>>,       \* exit code of each render call
    rendered |-> <<>>,          \* each render call: loop index, layout rendered, and the
                                \* transcoder calls made before its videos were drawn
    concatCode |-> -1,          \* exit code of the concatenation call, -1: not made
    madeDir |-> FALSE,          \* os.makedirs returned
    deletions |-> 0             \* shutil.rmtree calls that removed the directory
]

Init ==
    /\ ffmpeg_found \in BOOLEAN
    /\ video_files = {}
    /\ generate_enabled = TRUE
    /\ nruns = 0
    /\ worker = [w \in Runs |-> NewWorker]
    /\ dirExists \in BOOLEAN
    /\ userFile = dirExists
    /\ clips = <<>>
    /\ manifest = Absent
    /\ foreignTouch = FALSE
    /\ scene_clip = NoSceneClip
    /\ progress_bar = NoProgressBar

\* ------------------------------------------------------------ App actions

\* the pools a source folder can hold, as sets of file ids
Pools == {1..k : k \in 0..MaxPool}

\* App.select_source_folder: the folder chosen holds any number of videos
\* (followed only while another Generate click can still come)
select_source_folder ==
    /\ nruns < MaxRuns
    /\ \E p \in Pools : video_files' = p
    /\ UNCHANGED <<scene_clip, progress_bar, ffmpeg_found, generate_enabled, nruns, worker,
                   dirExists, clips, manifest, userFile, foreignTouch>>

\* the settings the widgets can hold
UISettings ==
    [layout_mix : MixValues,
     total_duration : SpinMin..MaxTotal,
     scene_duration : SpinMin..MaxScene]

\* VideoWorker.__init__ followed by start()
StartWorker(s, files) ==
    [NewWorker EXCEPT !.pc = "prepare", !.settings = s, !.video_files = files]

\* line 293 rebinds self.worker: of an earlier worker the App keeps nothing, and what
\* remains is what its thread still uses (its position; temp_dir is the same path)
\* and the record of its notifications and deletions
Released(wr) ==
    [NewWorker EXCEPT !.pc = wr.pc, !.finished = wr.finished, !.delivered = wr.delivered,
                      !.madeDir = wr.madeDir, !.deletions = wr.deletions]

\* App.generate_video, on a click of the (enabled) Generate button
generate_video ==
    /\ generate_enabled
    /\ nruns < MaxRuns
    /\ \/ /\ ~ffmpeg_found                     \* show_ffmpeg_warning(); return
          /\ UNCHANGED <<generate_enabled, nruns, worker>>
       \/ /\ ffmpeg_found
          /\ video_files = {}                  \* "Please select a source folder."
          /\ UNCHANGED <<generate_enabled, nruns, worker>>
       \/ /\ ffmpeg_found
          /\ video_files # {}
          /\ generate_enabled' = FALSE
          /\ nruns' = nruns + 1
          /\ \E s \in UISettings :
                worker' = [w \in Runs |->
                    IF w = nruns + 1 THEN StartWorker(s, video_files)
                    ELSE Released(worker[w])]
    /\ UNCHANGED <<scene_clip, progress_bar, ffmpeg_found, video_files,
                   dirExists, clips, manifest, userFile, foreignTouch>>

\* App.on_finished, run in the UI thread for one queued finished signal
on_finished(w) ==
    /\ worker[w].delivered < Len(worker[w].finished)
    /\ worker' = [worker EXCEPT ![w].delivered = @ + 1]
    /\ generate_enabled' = TRUE
    /\ UNCHANGED <<scene_clip, progress_bar, ffmpeg_found, video_files, nruns, dirExists, clips, manifest,
                   userFile, foreignTouch>>

\* ------------------------------------------------------- VideoWorker.run

\* run w holds the workspace: from os.makedirs to the end of its run
Using(w) == worker[w].madeDir /\ worker[w].pc # "done"

\* a step of run w that creates, writes or deletes temp_clips
Touch(w) ==
    foreignTouch' = (foreignTouch \/ \E v \in Runs : v > w /\ Using(v))

\* self.finished.emit(message, success)
EmitFinished(wr, message, success) ==
    [wr EXCEPT !.finished =
        Append(@, [message |-> message, success |-> success, wsExisted |-> dirExists])]

\* run, lines 47-48: os.makedirs(temp_dir, exist_ok=True), which may fail
Prepare(w) ==
    /\ worker[w].pc = "prepare"
    /\ \/ /\ worker' = [worker EXCEPT ![w].pc = "scan", ![w].madeDir = TRUE]
          /\ dirExists' = TRUE
          /\ Touch(w)
       \/ /\ ~dirExists
          /\ worker' = [worker EXCEPT ![w].pc = "except"]
          /\ UNCHANGED <<dirExists, foreignTouch>>
    /\ UNCHANGED <<scene_clip, progress_bar, ffmpeg_found, video_files, generate_enabled, nruns,
                   clips, manifest, userFile>>

\* run, lines 50-51: _cache_video_info over self.video_files
cache_video_info(w) ==
    /\ worker[w].pc = "scan"
    /\ \E out \in [worker[w].video_files -> ProbeOutcomes] :
          IF \E f \in worker[w].video_files : ProbeRaises(out[f])
          THEN worker' = [worker EXCEPT ![w].pc = "except", ![w].probe_failed = TRUE]
          ELSE worker' = [worker EXCEPT
                  ![w].pc = "plan",
                  ![w].probe_failed = \E f \in worker[w].video_files : ProbeFailed(out[f]),
                  ![w].video_info_cache =
                      [f \in worker[w].video_files |-> has_audio(out[f])]]
    /\ UNCHANGED <<scene_clip, progress_bar, ffmpeg_found, video_files, generate_enabled, nruns,
                   dirExists, clips, manifest, userFile, foreignTouch>>

\* a run without the empty-plan check of lines 54-56: the loop over no scenes is
\* skipped and stage 2 starts
AfterPlanNoCheck(wr, scenes) ==
    [wr EXCEPT !.pc = IF scenes = <<>> THEN "concat_write" ELSE "render",
               !.scenes = scenes, !.planned = TRUE]

\* run, lines 54-56: an empty plan is reported and run returns; otherwise stage 1 starts
AfterPlan(wr, scenes) ==
    IF scenes = <<>>
    THEN [EmitFinished(wr, "plan_failed", FALSE) EXCEPT !.pc = "finally", !.planned = TRUE]
    ELSE [wr EXCEPT !.pc = "render", !.scenes = scenes, !.planned = TRUE]

\* run, lines 53-59: _plan_scenes, and the early return on an empty plan
Plan(w) ==
    /\ worker[w].pc = "plan"
    /\ LET n == NumScenes(worker[w].settings) IN
       \E rs \in [1..n -> RandDraws], cs \in [1..n -> available_layouts] :
          worker' = [worker EXCEPT
              ![w] = AfterPlan(@, plan_scenes(worker[w].settings, rs, cs))]
    /\ UNCHANGED <<scene_clip, progress_bar, ffmpeg_found, video_files, generate_enabled, nruns,
                   dirExists, clips, manifest, userFile, foreignTouch>>

\* clips with clip_<i>.ts (re)written with frames of size sz
WriteClip(i, sz) ==
    [k \in DOMAIN clips \cup {i} |-> IF k = i THEN sz ELSE clips[k]]

\* a loop that is left after its first iteration
AfterRenderBreak(wr, code) == "concat_write"

\* run, line 66 onwards: the loop goes on, or ends, whatever the render's exit code
AfterRender(wr, code) ==
    IF wr.i + 1 < Len(wr.scenes) THEN "render" ELSE "concat_write"

\* a loop that renders the first planned scene at every iteration
CurrentSceneFirst(wr) == wr.scenes[1]

\* run, line 62: for i, scene in enumerate(scenes)
CurrentScene(wr) == wr.scenes[wr.i + 1]

\* run, lines 62-66: one iteration of the scene loop, with _create_scene_clip
\* (lines 119-168: subprocess.run without check=True, its result dropped)
Render(w) ==
    /\ worker[w].pc = "render"
    /\ LET wr == worker[w]
           type == CurrentScene(wr)
           emitted == [wr EXCEPT !.progress =
                          Append(@, ScenePercent(wr.i, Len(wr.scenes)))]
           ran(code) == [emitted EXCEPT
                          !.renderCodes = Append(@, code),
                          !.rendered = Append(@, [i |-> wr.i, type |-> type,
                                                  calls |-> Len(wr.renderCodes)]),
                          !.clip_paths = Append(@, wr.i),
                          !.i = @ + 1,
                          !.pc = AfterRender(wr, code)]
       IN  \/ /\ worker' = [worker EXCEPT ![w] = [emitted EXCEPT !.pc = "except"]]
              /\ UNCHANGED <<clips, foreignTouch>>        \* ffmpeg cannot be launched,
                                                          \* or random.choice([]) raises
           \/ /\ wr.video_files # {}
              /\ dirExists                                \* the clip is written
              /\ \E code \in ExitCodes : worker' = [worker EXCEPT ![w] = ran(code)]
              /\ clips' = WriteClip(wr.i, VoutSize(type))
              /\ Touch(w)
           \/ /\ wr.video_files # {}
              /\ \E code \in ExitCodes \ {0} : worker' = [worker EXCEPT ![w] = ran(code)]
              /\ UNCHANGED <<clips, foreignTouch>>        \* ffmpeg fails, nothing written
    /\ UNCHANGED <<scene_clip, progress_bar, ffmpeg_found, video_files, generate_enabled, nruns,
                   dirExists, manifest, userFile>>

\* a manifest written from the last clip to the first
ManifestLinesReversed(clip_paths) ==
    [k \in 1..Len(clip_paths) |-> clip_paths[Len(clip_paths) + 1 - k]]

\* run, lines 71-73: one line "file '<basename of path>'" per path of clip_paths, in order
ManifestLines(clip_paths) == [k \in 1..Len(clip_paths) |-> clip_paths[k]]

\* run, lines 69-73: the 95% progress, and concat_list.txt written from clip_paths
ConcatWrite(w) ==
    /\ worker[w].pc = "concat_write"
    /\ LET emitted == [worker[w] EXCEPT !.progress = Append(@, ConcatPercent)] IN
       \/ /\ worker' = [worker EXCEPT ![w] = [emitted EXCEPT !.pc = "except"]]
          /\ UNCHANGED <<manifest, foreignTouch>>          \* open() fails
       \/ /\ dirExists
          /\ worker' = [worker EXCEPT ![w] = [emitted EXCEPT !.pc = "concat_run"]]
          /\ manifest' = ManifestLines(worker[w].clip_paths)
          /\ Touch(w)
    /\ UNCHANGED <<scene_clip, progress_bar, ffmpeg_found, video_files, generate_enabled, nruns,
                   dirExists, clips, userFile>>

\* the concat demuxer can succeed: the manifest and every clip it lists are there
CanConcat ==
    /\ dirExists
    /\ manifest # Absent
    /\ \A k \in 1..Len(manifest) : manifest[k] \in DOMAIN clips

\* a report without the else of line 93: the failure is emitted after the success too
ReportNoElse(wr, returncode) ==
    IF returncode = 0
    THEN EmitFinished(
            EmitFinished([wr EXCEPT !.progress = Append(@, DonePercent)], "success", TRUE),
            "concat_failed", FALSE)
    ELSE EmitFinished(wr, "concat_failed", FALSE)

\* run, lines 90-94: what is reported for the concatenation's exit code
Report(wr, returncode) ==
    IF returncode = 0
    THEN EmitFinished([wr EXCEPT !.progress = Append(@, DonePercent)], "success", TRUE)
    ELSE EmitFinished(wr, "concat_failed", FALSE)

\* run, lines 75-94: the concatenation call (cwd = temp_dir) and the report
ConcatRun(w) ==
    /\ worker[w].pc = "concat_run"
    /\ \/ worker' = [worker EXCEPT ![w].pc = "except"]     \* Popen fails
       \/ /\ dirExists
          /\ \E code \in ExitCodes :
                /\ code = 0 => CanConcat
                /\ worker' = [worker EXCEPT ![w] =
                      [Report([@ EXCEPT !.concatCode = code], code) EXCEPT !.pc = "finally"]]
    /\ UNCHANGED <<scene_clip, progress_bar, ffmpeg_found, video_files, generate_enabled, nruns,
                   dirExists, clips, manifest, userFile, foreignTouch>>

\* run, lines 96-97: except Exception
Except(w) ==
    /\ worker[w].pc = "except"
    /\ worker' = [worker EXCEPT
          ![w] = [EmitFinished(@, "error", FALSE) EXCEPT !.pc = "finally"]]
    /\ UNCHANGED <<scene_clip, progress_bar, ffmpeg_found, video_files, generate_enabled, nruns,
                   dirExists, clips, manifest, userFile, foreignTouch>>

\* run, line 99: if os.path.exists(temp_dir)
FinallyCheck(w) ==
    /\ worker[w].pc = "finally"
    /\ worker' = [worker EXCEPT ![w].pc = IF dirExists THEN "rmtree" ELSE "done"]
    /\ UNCHANGED <<scene_clip, progress_bar, ffmpeg_found, video_files, generate_enabled, nruns,
                   dirExists, clips, manifest, userFile, foreignTouch>>

\* run, line 100: shutil.rmtree(temp_dir); on a directory that is gone it raises,
\* and the error leaves run
Rmtree(w) ==
    /\ worker[w].pc = "rmtree"
    /\ \/ /\ dirExists
          /\ worker' = [worker EXCEPT ![w].pc = "done", ![w].deletions = @ + 1]
          /\ dirExists' = FALSE
          /\ clips' = <<>>
          /\ manifest' = Absent
          /\ userFile' = FALSE
          /\ Touch(w)
       \/ /\ ~dirExists
          /\ worker' = [worker EXCEPT ![w].pc = "done"]
          /\ UNCHANGED <<dirExists, clips, manifest, userFile, foreignTouch>>
    /\ UNCHANGED <<scene_clip, progress_bar, ffmpeg_found, video_files, generate_enabled, nruns>>

\* ------------------------------------------------------------------- Spec

WorkerStep(w) ==
    \/ Prepare(w)
    \/ cache_video_info(w)
    \/ Plan(w)
    \/ Render(w)
    \/ ConcatWrite(w)
    \/ ConcatRun(w)
    \/ Except(w)
    \/ FinallyCheck(w)
    \/ Rmtree(w)

Next ==
    \/ select_source_folder
    \/ generate_video
    \/ \E w \in Runs : on_finished(w)
    \/ \E w \in Runs : WorkerStep(w)

Spec == Init /\ [][Next]_vars

\* ---------------------------------------------- one VideoWorker on its own

\* the settings a caller of VideoWorker(settings, ...) can pass
WorkerSettings ==
    [layout_mix : MixValues,
     total_duration : SpinMin..MaxTotal,
     scene_duration : (0 - BelowZero)..MaxScene]

\* VideoWorker(settings, video_files, ffprobe_path).start(), for any settings and pool
InitWorker ==
    /\ ffmpeg_found = TRUE
    /\ video_files \in Pools
    /\ generate_enabled = FALSE
    /\ nruns = 1
    /\ \E s \in WorkerSettings :
          worker = [w \in Runs |-> IF w = 1 THEN StartWorker(s, video_files) ELSE NewWorker]
    /\ dirExists \in BOOLEAN
    /\ userFile = dirExists
    /\ clips = <<>>
    /\ manifest = Absent
    /\ foreignTouch = FALSE
    /\ scene_clip = NoSceneClip
    /\ progress_bar = NoProgressBar

NextWorker ==
    \/ on_finished(1)
    \/ WorkerStep(1)

SpecWorker == InitWorker /\ [][NextWorker]_vars

\* --------------------------------------- one _create_scene_clip call on its own

\* the pools a scene is built from, the empty one included
ScenePools == {1..k : k \in 0..MaxScenePool}

\* outcomes of the repeated random.choice(self.video_files) tried: every sequence of n
\* picks that repeats with period DrawPeriod (none from an empty pool: IndexError)
ChoiceDraws(pool, n) ==
    {[p \in 1..n |-> seed[((p - 1) % DrawPeriod) + 1]] : seed \in [1..DrawPeriod -> pool]}

\* outcomes of random.sample(self.video_files, n): n different positions of the pool
SampleDraws(pool, n) ==
    {s \in [1..n -> pool] : \A p, q \in 1..n : p # q => s[p] # s[q]}

\* a line 130 that never takes the random.sample branch
SceneVidsAlwaysChoice(pool, n) == ChoiceDraws(pool, n)

\* lines 130-133: the lists scene_vids can become
SceneVids(pool, n) ==
    IF Cardinality(pool) < n THEN ChoiceDraws(pool, n) ELSE SampleDraws(pool, n)

\* stream labels of the filter graph: [i:v], [i:a], [v<i>], [row<r>], [vout], [aout]
InV(i) == <<"in_v", i>>
InA(i) == <<"in_a", i>>
TileLabel(i) == <<"v", i>>
RowLabel(r) == <<"row", r>>
Vout == <<"vout", 0>>
Aout == <<"aout", 0>>

\* "[in]scale=w:h:...,pad=w:h:...,setpts=PTS-STARTPTS[out]"
ScaleFilter(in, size, out) ==
    [name |-> "scale", ins |-> <<in>>, inputs |-> 1, size |-> size, out |-> out]

\* lines 144-145: one tile per i in range(req_vids), 0-based
TileFilters(type) ==
    [p \in 1..ReqVids(type) |-> ScaleFilter(InV(p - 1), TileSize(type), TileLabel(p - 1))]

\* a row that takes its tiles down a column of the grid
RowFilterTransposed(grid_dim, r) ==
    [name |-> "hstack",
     ins |-> [c \in 1..grid_dim |-> TileLabel((c - 1) * grid_dim + r)],
     inputs |-> grid_dim, size |-> <<0, 0>>, out |-> RowLabel(r)]

\* line 147: "[v<r*grid_dim+c>]...hstack=inputs=<grid_dim>[row<r>]", c in range(grid_dim)
RowFilter(grid_dim, r) ==
    [name |-> "hstack",
     ins |-> [c \in 1..grid_dim |-> TileLabel(r * grid_dim + (c - 1))],
     inputs |-> grid_dim, size |-> <<0, 0>>, out |-> RowLabel(r)]

\* line 149: "[row0]...vstack=inputs=<grid_dim>[vout]"
ColumnFilter(grid_dim) ==
    [name |-> "vstack",
     ins |-> [r \in 1..grid_dim |-> RowLabel(r - 1)],
     inputs |-> grid_dim, size |-> <<0, 0>>, out |-> Vout]

\* lines 139-149: video_filters
VideoFilters(type) ==
    IF type = "single"
    THEN <<ScaleFilter(InV(0), <<TargetW, TargetH>>, Vout)>>
    ELSE TileFilters(type)
         \o [r \in 1..GridDim(type) |-> RowFilter(GridDim(type), r - 1)]
         \o <<ColumnFilter(GridDim(type))>>

RECURSIVE AudioFrom(_, _, _)
\* the 0-based positions p-1, from position p on, whose video has has_audio in the cache
AudioFrom(scene_vids, cache, p) ==
    IF p > Len(scene_vids) THEN <<>>
    ELSE (IF cache[scene_vids[p]] THEN <<p - 1>> ELSE <<>>)
         \o AudioFrom(scene_vids, cache, p + 1)

RECURSIVE AudioOnceFrom(_, _, _)
\* the same, a video that takes part more than once counted at its first position only
AudioOnceFrom(scene_vids, cache, p) ==
    IF p > Len(scene_vids) THEN <<>>
    ELSE (IF cache[scene_vids[p]] /\ \A q \in 1..(p - 1) : scene_vids[q] # scene_vids[p]
          THEN <<p - 1>> ELSE <<>>)
         \o AudioOnceFrom(scene_vids, cache, p + 1)

\* a line 152 that lists each audio-bearing video once
VidsWithAudioOnce(scene_vids, cache) == AudioOnceFrom(scene_vids, cache, 1)

\* line 152: vids_with_audio
VidsWithAudio(scene_vids, cache) == AudioFrom(scene_vids, cache, 1)

\* lines 153-155: audio_filters
AudioFilters(vids_with_audio) ==
    IF vids_with_audio # <<>>
    THEN <<[name |-> "amix",
            ins |-> [k \in 1..Len(vids_with_audio) |-> InA(vids_with_audio[k])],
            inputs |-> Len(vids_with_audio), size |-> <<0, 0>>, out |-> Aout]>>
    ELSE <<>>

\* lines 153-158: map_audio
MapAudio(vids_with_audio) ==
    IF vids_with_audio # <<>> THEN <<"-map", "[aout]">> ELSE <<"-an">>

\* _create_scene_clip is called with a scene, on a worker with this pool and cache
SceneCall(type, pool, cache) ==
    [stage |-> "call", type |-> type, video_files |-> pool, video_info_cache |-> cache,
     scene_vids |-> <<>>, inputs |-> <<>>, video_filters |-> <<>>,
     audio_filters |-> <<>>, map_audio |-> <<>>]

\* lines 136-166: the command built for the videos drawn
SceneCommand(call, scene_vids) ==
    [call EXCEPT !.stage = "built",
                 !.scene_vids = scene_vids,
                 !.inputs = scene_vids,
                 !.video_filters = VideoFilters(call.type),
                 !.audio_filters =
                     AudioFilters(VidsWithAudio(scene_vids, call.video_info_cache)),
                 !.map_audio = MapAudio(VidsWithAudio(scene_vids, call.video_info_cache))]

InitScene ==
    /\ ffmpeg_found = TRUE
    /\ video_files = {}
    /\ generate_enabled = TRUE
    /\ nruns = 0
    /\ worker = [w \in Runs |-> NewWorker]
    /\ dirExists = FALSE
    /\ userFile = FALSE
    /\ clips = <<>>
    /\ manifest = Absent
    /\ foreignTouch = FALSE
    /\ progress_bar = NoProgressBar
    /\ \E type \in Layouts, pool \in ScenePools :
          \E cache \in [pool -> BOOLEAN] : scene_clip = SceneCall(type, pool, cache)

\* _create_scene_clip, lines 119-166: the videos are drawn and the command is built;
\* random.choice on an empty pool raises IndexError
create_scene_clip ==
    /\ scene_clip.stage = "call"
    /\ IF scene_clip.video_files = {}
       THEN scene_clip' = [scene_clip EXCEPT !.stage = "raised"]
       ELSE \E scene_vids \in SceneVids(scene_clip.video_files, ReqVids(scene_clip.type)) :
               scene_clip' = SceneCommand(scene_clip, scene_vids)
    /\ UNCHANGED <<progress_bar, ffmpeg_found, video_files, generate_enabled, nruns, worker,
                   dirExists, clips, manifest, userFile, foreignTouch>>

NextScene == create_scene_clip

SpecScene == InitScene /\ [][NextScene]_vars

\* ------------------------------------------- the progress signal of one run

\* a run has planned total_scenes scenes and is about to enter the scene loop
BarStart(total_scenes) ==
    [stage |-> "render", total_scenes |-> total_scenes, i |-> 0,
     percents |-> <<>>, returncode |-> -1]

InitProgress ==
    /\ ffmpeg_found = TRUE
    /\ video_files = {}
    /\ generate_enabled = TRUE
    /\ nruns = 0
    /\ worker = [w \in Runs |-> NewWorker]
    /\ dirExists = FALSE
    /\ userFile = FALSE
    /\ clips = <<>>
    /\ manifest = Absent
    /\ foreignTouch = FALSE
    /\ scene_clip = NoSceneClip
    /\ \E n \in 1..MaxPlanLength : progress_bar = BarStart(n)

\* run, lines 62-66: iteration i emits int((i / total_scenes) * 100) and renders, which
\* goes on to the next iteration (whatever the exit code) or raises
ProgressScene ==
    /\ progress_bar.stage = "render"
    /\ \E raised \in BOOLEAN :
          progress_bar' = [progress_bar EXCEPT
              !.percents = Append(@, ScenePercent(progress_bar.i, progress_bar.total_scenes)),
              !.i = @ + 1,
              !.stage = IF raised THEN "end"
                        ELSE IF progress_bar.i + 1 < progress_bar.total_scenes THEN "render"
                        ELSE "concat"]
    /\ UNCHANGED <<scene_clip, ffmpeg_found, video_files, generate_enabled, nruns, worker,
                   dirExists, clips, manifest, userFile, foreignTouch>>

\* run, line 69: self.progress.emit(95, "Stage 2/2: ...")
ProgressConcat ==
    /\ progress_bar.stage = "concat"
    /\ progress_bar' = [progress_bar EXCEPT
          !.percents = Append(@, ConcatPercent), !.stage = "report"]
    /\ UNCHANGED <<scene_clip, ffmpeg_found, video_files, generate_enabled, nruns, worker,
                   dirExists, clips, manifest, userFile, foreignTouch>>

\* run, lines 88-94: the concatenation's exit code; 0 emits the 100%
ProgressReport ==
    /\ progress_bar.stage = "report"
    /\ \E code \in ExitCodes :
          progress_bar' = [progress_bar EXCEPT
              !.percents = IF code = 0 THEN Append(@, DonePercent) ELSE @,
              !.returncode = code,
              !.stage = "end"]
    /\ UNCHANGED <<scene_clip, ffmpeg_found, video_files, generate_enabled, nruns, worker,
                   dirExists, clips, manifest, userFile, foreignTouch>>

NextProgress ==
    \/ ProgressScene
    \/ ProgressConcat
    \/ ProgressReport

SpecProgress == InitProgress /\ [][NextProgress]_vars

\* ------------------------------------------------------------------ claims

RenderFailed(w) ==
    \E j \in 1..Len(worker[w].renderCodes) : worker[w].renderCodes[j] # 0

ConcatFailed(w) == worker[w].concatCode \notin {-1, 0}

\* C1: a run in which a render call or the concatenation call exited non-zero never
\* reports success = true and never emits the 100% progress.
C1_FailureNeverReportsSuccess ==
    \A w \in Runs :
        (RenderFailed(w) \/ ConcatFailed(w)) =>
            /\ \A k \in 1..Len(worker[w].finished) : ~worker[w].finished[k].success
            /\ \A k \in 1..Len(worker[w].progress) : worker[w].progress[k] # DonePercent

\* C2: a render call that exits non-zero is the last transcoder call of its run: no
\* further render call (of a later scene, or a retry) follows it, the run is not left
\* in the scene loop or in stage 2, and the concatenation call is never made.
C2_RenderFailureAborts ==
    \A w \in Runs :
        \A j \in 1..Len(worker[w].renderCodes) :
            worker[w].renderCodes[j] # 0 =>
                /\ Len(worker[w].renderCodes) = j
                /\ worker[w].concatCode = -1
                /\ worker[w].pc \notin {"render", "concat_write", "concat_run"}

\* C3: a run that created the workspace and has ended has removed it exactly once, and
\* when no other run holds the workspace nothing of it is left.
C3_WorkspaceDeletedExactlyOnce ==
    \A w \in Runs :
        (worker[w].pc = "done" /\ worker[w].madeDir) =>
            /\ worker[w].deletions = 1
            /\ (\A v \in Runs \ {w} : ~Using(v)) =>
                  (~dirExists /\ clips = <<>> /\ manifest = Absent)

\* C4: whenever a run emits finished, the workspace directory is already removed.
C4_WorkspaceGoneWhenReported ==
    \A w \in Runs :
        \A k \in 1..Len(worker[w].finished) : ~worker[w].finished[k].wsExisted

\* C5: a run emits finished exactly once: never twice, no more is handled than was
\* emitted, and once the run is past its try block (whichever way it left it) the
\* one notification has been emitted.
C5_ExactlyOneFinished ==
    \A w \in Runs :
        /\ Len(worker[w].finished) <= 1
        /\ worker[w].delivered <= Len(worker[w].finished)
        /\ worker[w].pc \in {"finally", "rmtree", "done"} => Len(worker[w].finished) = 1
        /\ worker[w].pc \in {"unstarted", "prepare", "scan", "plan", "render",
                              "concat_write", "concat_run", "except"}
              => Len(worker[w].finished) = 0

\* a run ended by an exception raised after a scene was rendered, with its one report
C5_Witness ==
    \E w \in Runs :
        /\ worker[w].pc = "done"
        /\ worker[w].renderCodes # <<>>
        /\ Len(worker[w].finished) = 1
        /\ worker[w].finished[1].message = "error"
        /\ worker[w].delivered = 1

\* C6: no step of a run creates, writes or deletes the workspace while a later run
\* (started after the earlier run's finished was handled) is using it.
C6_WorkspaceExclusivelyOwned == ~foreignTouch

\* C7: every clip rendered into the workspace has frames of 1280x720.
C7_EveryClipHasTargetSize ==
    \A k \in DOMAIN clips : clips[k] = <<TargetW, TargetH>>

\* C8: with total_duration >= 1 and scene_duration > 0 the plan holds
\* floor(total_duration / scene_duration) scenes; a run that reaches stage 2 has made
\* that many render calls and lists that many clips, and the manifest it wrote has
\* that many lines.
C8_SceneCountIsFloor ==
    \A w \in Runs :
        LET wr == worker[w]
            n == wr.settings.total_duration \div wr.settings.scene_duration
        IN  (wr.settings.total_duration >= 1 /\ wr.settings.scene_duration > 0) =>
              /\ wr.pc \in {"render", "concat_write", "concat_run"} => Len(wr.scenes) = n
              /\ (wr.planned /\ n = 0) => wr.scenes = <<>>
              /\ wr.pc \in {"concat_write", "concat_run"} =>
                    (Len(wr.renderCodes) = n /\ Len(wr.clip_paths) = n)
              /\ (wr.pc = "concat_run" /\ manifest # Absent) => Len(manifest) = n

\* a run with total_duration 3 and scene_duration 2 about to concatenate its one clip
C8_Witness ==
    \E w \in Runs :
        /\ worker[w].settings.total_duration = 3
        /\ worker[w].settings.scene_duration = 2
        /\ worker[w].pc = "concat_run"
        /\ manifest = <<0>>

EmptyPlan(w) ==
    \/ worker[w].settings.scene_duration <= 0
    \/ worker[w].settings.total_duration < worker[w].settings.scene_duration

\* C9: a run whose settings give an empty plan never calls the transcoder and never
\* lists or writes a clip or a manifest; once planning has returned, the run has left
\* its try block with the one notification plan_failed, success = false.
C9_EmptyPlanFailsBeforeRendering ==
    \A w \in Runs :
        EmptyPlan(w) =>
            /\ worker[w].renderCodes = <<>>
            /\ worker[w].concatCode = -1
            /\ worker[w].clip_paths = <<>>
            /\ worker[w].pc \notin {"render", "concat_write", "concat_run"}
            /\ worker[w].planned =>
                  /\ worker[w].pc \in {"finally", "rmtree", "done"}
                  /\ Len(worker[w].finished) = 1
                  /\ worker[w].finished[1].message = "plan_failed"
                  /\ ~worker[w].finished[1].success
            /\ (\A v \in Runs \ {w} : worker[v].pc = "unstarted") =>
                  (clips = <<>> /\ manifest = Absent)

\* a run with a non-positive scene_duration that has ended with plan_failed
C9_Witness ==
    \E w \in Runs :
        /\ worker[w].settings.scene_duration <= 0
        /\ worker[w].pc = "done"
        /\ Len(worker[w].finished) = 1
        /\ worker[w].finished[1].message = "plan_failed"

\* C10: every planned scene is single, 2x2 or 3x3; with layout_mix = 0 every scene is
\* single and with layout_mix = 100 every scene is a grid.
C10_LayoutMixExtremes ==
    \A w \in Runs :
        \A k \in 1..Len(worker[w].scenes) :
            /\ worker[w].scenes[k] \in Layouts
            /\ worker[w].settings.layout_mix = 0 => worker[w].scenes[k] = "single"
            /\ worker[w].settings.layout_mix = 100 =>
                  worker[w].scenes[k] \in available_layouts

\* a plan of two different grids under layout_mix = 100
C10_Witness ==
    \E w \in Runs :
        /\ worker[w].settings.layout_mix = 100
        /\ Len(worker[w].scenes) >= 2
        /\ worker[w].scenes[1] = "2x2"
        /\ worker[w].scenes[2] = "3x3"

\* the number of videos a scene of a layout shows
Required(type) == CASE type = "single" -> 1 [] type = "2x2" -> 4 [] type = "3x3" -> 9

\* C11: for every scene built from a non-empty pool of distinct videos the number of
\* participants is the count its layout requires (1, 4 or 9); when the pool holds at
\* least that many videos the participants are pairwise distinct, and when it holds
\* fewer every participant is still a member of the pool; the command's inputs are the
\* participants in order.
C11_ParticipantsMatchLayout ==
    (scene_clip.stage = "built" /\ scene_clip.video_files # {}) =>
        LET v == scene_clip.scene_vids
            n == Required(scene_clip.type)
        IN  /\ Len(v) = n
            /\ \A p \in 1..Len(v) : v[p] \in scene_clip.video_files
            /\ Cardinality(scene_clip.video_files) >= n =>
                  \A p, q \in 1..Len(v) : p # q => v[p] # v[q]
            /\ scene_clip.inputs = v

\* a 2x2 scene built from a pool of four shows each of the four videos
C11_Witness ==
    /\ scene_clip.stage = "built"
    /\ scene_clip.type = "2x2"
    /\ Cardinality(scene_clip.video_files) = 4
    /\ {scene_clip.scene_vids[p] : p \in 1..Len(scene_clip.scene_vids)} = 1..4

\* the 0-based input positions of the participants that carry audio
AudioPositions ==
    {p - 1 : p \in {q \in 1..Len(scene_clip.scene_vids) :
                        scene_clip.video_info_cache[scene_clip.scene_vids[q]]}}

\* C12: the command has an audio-mix stage exactly when at least one participant has
\* audio; the stage's inputs are the audio streams of exactly the input positions of
\* the audio-bearing participants, each once and in order (a video that takes part
\* twice counts at both positions), its declared input count is their number, and its
\* output is what the command maps; without the stage the command maps no audio (-an).
C12_AudioMixOverAudioBearingInputs ==
    scene_clip.stage = "built" =>
        LET af == scene_clip.audio_filters IN
        /\ (af # <<>>) <=> (AudioPositions # {})
        /\ af # <<>> =>
              /\ Len(af) = 1
              /\ af[1].name = "amix"
              /\ {af[1].ins[k] : k \in 1..Len(af[1].ins)} =
                    {<<"in_a", i>> : i \in AudioPositions}
              /\ \A j, k \in 1..Len(af[1].ins) : j < k => af[1].ins[j][2] < af[1].ins[k][2]
              /\ af[1].inputs = Cardinality(AudioPositions)
              /\ Len(af[1].ins) = af[1].inputs
              /\ af[1].out = <<"aout", 0>>
              /\ scene_clip.map_audio = <<"-map", "[aout]">>
        /\ af = <<>> => scene_clip.map_audio = <<"-an">>

\* a 2x2 scene from a pool of one video with audio and one without: the video with
\* audio takes part at more than one position and each of them is mixed
C12_Witness ==
    /\ scene_clip.stage = "built"
    /\ scene_clip.type = "2x2"
    /\ scene_clip.video_files = 1..2
    /\ scene_clip.video_info_cache[1] /\ ~scene_clip.video_info_cache[2]
    /\ scene_clip.scene_vids = <<1, 2, 1, 2>>
    /\ scene_clip.audio_filters # <<>>
    /\ scene_clip.audio_filters[1].ins = <<<<"in_a", 0>>, <<"in_a", 2>>>>

\* C13: the scenes are rendered one at a time in planned order: the k-th render call of
\* a run is for loop index k-1 and renders the k-th planned scene into clip_<k-1>, the
\* clips are listed in that order, and the manifest the run writes names clip_<k-1> on
\* its k-th line, one line per planned scene, none missing, repeated or out of order.
C13_ManifestInPlannedOrder ==
    \A w \in Runs :
        LET wr == worker[w] IN
        /\ Len(wr.rendered) <= Len(wr.scenes)
        /\ \A k \in 1..Len(wr.rendered) :
              /\ wr.rendered[k].i = k - 1
              /\ wr.rendered[k].type = wr.scenes[k]
        /\ wr.clip_paths = [k \in 1..Len(wr.rendered) |-> k - 1]
        /\ wr.pc = "concat_write" => Len(wr.rendered) = Len(wr.scenes)
        /\ wr.pc = "concat_run" => manifest = [k \in 1..Len(wr.scenes) |-> k - 1]

\* a run that planned a grid and then a full-frame scene has rendered both and written
\* the manifest clip_0000, clip_0001
C13_Witness ==
    \E w \in Runs :
        /\ worker[w].pc = "concat_run"
        /\ worker[w].scenes = <<"2x2", "single">>
        /\ Len(worker[w].rendered) = 2
        /\ manifest = <<0, 1>>

\* C14: an error of the prober (it cannot be launched, it exits non-zero, its output is
\* not JSON, or the JSON is not an object) is recovered inside the probe: the run goes
\* on to planning and, as long as nothing else has happened, has emitted no finished.
C14_ProbeErrorsAreRecovered ==
    \A w \in Runs :
        (worker[w].probe_failed /\ ~worker[w].planned) =>
            /\ worker[w].pc = "plan"
            /\ worker[w].finished = <<>>

Succeeded(w) ==
    \E k \in 1..Len(worker[w].finished) : worker[w].finished[k].success

\* C17 as stated: a run that planned n scenes and reported success has called the
\* transcoder 2n times to render and once to concatenate.
C17_TwoRenderCallsPerScene ==
    \A w \in Runs :
        Succeeded(w) =>
            /\ Len(worker[w].renderCodes) = 2 * Len(worker[w].scenes)
            /\ worker[w].concatCode = 0

\* C17, amended: the transcoder is called once per scene-render call and once per
\* concatenation: a run never makes more render calls than it planned scenes, and a run
\* that planned n scenes and reported success has made n render calls and the one
\* concatenation call.
C17_OneRenderCallPerScene ==
    \A w \in Runs :
        /\ Len(worker[w].renderCodes) <= Len(worker[w].scenes)
        /\ Len(worker[w].renderCodes) = worker[w].i
        /\ worker[w].concatCode # -1 =>
              Len(worker[w].renderCodes) = Len(worker[w].scenes)
        /\ Succeeded(w) =>
              /\ Len(worker[w].renderCodes) = Len(worker[w].scenes)
              /\ worker[w].concatCode = 0

\* a run of three scenes that reported success after three render calls
C17_Witness ==
    \E w \in Runs :
        /\ Succeeded(w)
        /\ Len(worker[w].scenes) = 3
        /\ Len(worker[w].renderCodes) = 3
        /\ worker[w].concatCode = 0

\* the grid dimension of a grid layout
Dim(type) == CASE type = "2x2" -> 2 [] type = "3x3" -> 3

\* the labels a filter reads
InsOf(f) == {f.ins[k] : k \in 1..Len(f.ins)}

\* C18: the video filter graph of a d x d grid scene (d = 2 or 3) is d*d tile filters,
\* tile i reading input i and writing [v<i>], then d row filters, row r stacking
\* [v<r*d>] .. [v<r*d+d-1>] in that order into [row<r>], then one column filter stacking
\* [row0] .. [row<d-1>] in order into [vout]; every tile label is read by exactly one
\* row, every row label by the column filter, and no label is read that no filter (or
\* input) provides.
C18_GridGraphWiring ==
    (scene_clip.stage = "built" /\ scene_clip.type \in {"2x2", "3x3"}) =>
        LET d == Dim(scene_clip.type)
            vf == scene_clip.video_filters
            tile(i) == vf[i + 1]
            row(r) == vf[d * d + r + 1]
            col == vf[d * d + d + 1]
        IN  /\ Len(vf) = d * d + d + 1
            /\ Len(scene_clip.inputs) = d * d
            /\ \A i \in 0..(d * d - 1) :
                  /\ tile(i).name = "scale"
                  /\ tile(i).ins = <<<<"in_v", i>>>>
                  /\ tile(i).out = <<"v", i>>
                  /\ Cardinality({r \in 0..(d - 1) : <<"v", i>> \in InsOf(row(r))}) = 1
                  /\ <<"v", i>> \notin InsOf(col)
            /\ \A r \in 0..(d - 1) :
                  /\ row(r).name = "hstack"
                  /\ row(r).inputs = d
                  /\ row(r).ins = [c \in 1..d |-> <<"v", r * d + c - 1>>]
                  /\ row(r).out = <<"row", r>>
            /\ col.name = "vstack"
            /\ col.inputs = d
            /\ col.ins = [r \in 1..d |-> <<"row", r - 1>>]
            /\ col.out = <<"vout", 0>>
            /\ \A k \in 1..Len(vf) : \A j \in 1..Len(vf[k].ins) :
                  \/ vf[k].ins[j][1] = "in_v" /\ vf[k].ins[j][2] < Len(scene_clip.inputs)
                  \/ \E m \in 1..(k - 1) : vf[m].out = vf[k].ins[j]

\* a 3x3 scene whose second row stacks tiles 3, 4, 5
C18_Witness ==
    /\ scene_clip.stage = "built"
    /\ scene_clip.type = "3x3"
    /\ Len(scene_clip.video_filters) = 13
    /\ scene_clip.video_filters[11].ins = <<<<"v", 3>>, <<"v", 4>>, <<"v", 5>>>>

\* C19: within one run the percents passed to progress never decrease: the per-scene
\* values, then the value at the start of the concatenation, then 100; and 100 is
\* emitted only when the concatenation exited with code 0.
C19_ProgressNeverDecreases ==
    progress_bar.stage # "none" =>
        /\ \A j, k \in 1..Len(progress_bar.percents) :
              j < k => progress_bar.percents[j] <= progress_bar.percents[k]
        /\ (\E k \in 1..Len(progress_bar.percents) : progress_bar.percents[k] = DonePercent)
              => progress_bar.returncode = 0

\* C20: cleanup removes only what the run created: a file that was in temp_clips
\* before the run started (and with it the directory) is still there after every step
\* of the run.
C20_CleanupKeepsForeignFiles == [][userFile => userFile']_vars

====
